---- MODULE Spec2Model ----
(***************************************************************************)
(* A model of app.py (India Indicators dashboard): the retrying HTTP       *)
(* helper, the paginated World Bank fetch and its normalisation, the two   *)
(* st.cache_data layers, the request handler at module level, and the      *)
(* metric functions yoy_change, cagr_from_last_n_years, extend_forecast.   *)
(*                                                                         *)
(* Optional values (None / NaN / JSON null) are sets with at most one      *)
(* element: None is {} and a present value v is {v}.                       *)
(***************************************************************************)
EXTENDS Integers, Sequences, FiniteSets, TLC

VARIABLES
    fpc, page, out, reqs, fres,        \* one execution of wb_fetch_series' body
    input, result,                     \* one application of a function to its arguments
    now, ticks, seriesCache, multiCache, call   \* the running application

fetchVars == <<fpc, page, out, reqs, fres>>
pureVars == <<input, result>>
appVars == <<now, ticks, seriesCache, multiCache, call>>
vars == <<fpc, page, out, reqs, fres, input, result, now, ticks, seriesCache, multiCache, call>>

None == {}
Some(v) == {v}
Get(o) == CHOOSE v \in o : TRUE

\* ------------------------------------------------------------------ bounds
MaxAttempts == 4
MaxPages == 2
MaxRows == 1

\* --------------------------------------------------------- program constants
Retries == 3
Backoff == 6
DEFAULT_COUNTRY == "IND"
INDICATOR == "NY.GDP.MKTP.CD"

\* --------------------------------------------------------------------------
\* _safe_request.  `outs` is what the server does to the successive attempts
\* of this call: outs[k] is "ok" or the kind of error the k-th attempt meets.
\* The k-th attempt's exception is [attempt |-> k, kind |-> outs[k]] and its
\* response is identified by k.  Sleeps are counted in tenths of a second.
\* --------------------------------------------------------------------------
AttemptKinds == {"ok", "timeout", "http"}
AttemptOutcomes == [1..MaxAttempts -> AttemptKinds]

Pow2(i) == IF i = 0 THEN 1 ELSE IF i = 1 THEN 2 ELSE IF i = 2 THEN 4 ELSE IF i = 3 THEN 8 ELSE 16

RECURSIVE RetryLoop(_, _, _, _, _)
RetryLoop(i, retries, outs, last_exc, slept) ==
    IF i >= retries
    THEN [ok |-> FALSE, exc |-> last_exc, resp |-> None, attempts |-> i, slept |-> slept]
    ELSE IF outs[i + 1] = "ok"
         THEN [ok |-> TRUE, exc |-> None, resp |-> Some(i + 1), attempts |-> i + 1, slept |-> slept]
         ELSE RetryLoop(i + 1, retries, outs,
                        Some([attempt |-> i + 1, kind |-> outs[i + 1]]),
                        slept + Backoff * Pow2(i))

safe_request_extra_attempt(outs, retries) == RetryLoop(0, retries + 1, outs, None, 0)

_safe_request(outs, retries) == RetryLoop(0, retries, outs, None, 0)

\* --------------------------------------------------------------------------
\* wb_fetch_series: the pagination loop and the normalisation of the rows.
\* A raw row is what json_normalize + rename give for one element of the
\* rows array: date is the JSON text, value a JSON number or null.
\* --------------------------------------------------------------------------
\* pd.to_numeric(errors="coerce") on the date column
to_numeric_date(txt) ==
    IF txt = "2020" THEN Some(2020)
    ELSE IF txt = "2021" THEN Some(2021)
    ELSE IF txt = "2019" THEN Some(2019)
    ELSE IF txt = "2022" THEN Some(2022)
    ELSE None

RawRow(c, txt, v) == [iso3 |-> c, indicator |-> INDICATOR, date |-> txt, value |-> v]

RawRows(c) ==
    { RawRow(c, "2020", Some(5)), RawRow(c, "2021", None),
      RawRow(c, "2021", Some(7)), RawRow(c, "2021Q1", Some(5)) }

SeqsUpTo(S, n) == UNION { [1..k -> S] : k \in 0..n }

\* The JSON body of a response.  kind "short": not a list, or a list of fewer
\* than 2 elements; "long": a list of more than 2 elements; "pair": [meta, rows]
\* where meta may lack "pages" (None) and rows may be null (None).
ShortBody == [kind |-> "short", pages |-> None, rows |-> None]
LongBody == [kind |-> "long", pages |-> None, rows |-> None]
PairBodies(c) ==
    [kind : {"pair"},
     pages : {None} \cup { Some(p) : p \in 0..MaxPages },
     rows : {None} \cup { Some(s) : s \in SeqsUpTo(RawRows(c), MaxRows) }]
Bodies(c) == {ShortBody, LongBody} \cup PairBodies(c)

\* meta.get("pages", 1)
MetaPages(body) == IF body.pages = None THEN 1 ELSE Get(body.pages)

last_page_strict(pg, body) == pg > MetaPages(body)

\* if page >= meta.get("pages", 1): break
LastPage(pg, body) == pg >= MetaPages(body)

\* The loop body after r = _safe_request(url, params) returned or raised.
\* next: "continue" (page += 1), "break", or "raise".
AfterRequest(pg, acc, outs, body, r, req) ==
    IF ~r.ok
    THEN [next |-> "raise", page |-> pg, out |-> acc, req |-> req, exc |-> r.exc]
    ELSE IF body.kind = "short"
    THEN [next |-> "break", page |-> pg, out |-> acc, req |-> req, exc |-> None]
    ELSE IF body.kind = "long"
    THEN [next |-> "raise", page |-> pg, out |-> acc, req |-> req, exc |-> Some("ValueError")]
    ELSE IF body.rows = None
    THEN [next |-> "raise", page |-> pg, out |-> acc, req |-> req, exc |-> Some("TypeError")]
    ELSE IF LastPage(pg, body)
    THEN [next |-> "break", page |-> pg, out |-> acc \o Get(body.rows), req |-> req, exc |-> None]
    ELSE [next |-> "continue", page |-> pg + 1, out |-> acc \o Get(body.rows), req |-> req, exc |-> None]

\* the log entry of one _safe_request call
RequestLog(pg, outs, body, r) ==
    [page |-> pg, outs |-> outs, ok |-> r.ok, attempts |-> r.attempts,
     exc |-> r.exc, resp |-> r.resp, body |-> IF r.ok THEN Some(body) ELSE None]

\* One iteration of the while loop on the given page, the server answering
\* this call's attempts with `outs` and, on success, with `body`.
LoopIter(pg, acc, outs, body) ==
    AfterRequest(pg, acc, outs, body, _safe_request(outs, Retries),
                 RequestLog(pg, outs, body, _safe_request(outs, Retries)))

\* df["date"] / df["value"] = pd.to_numeric(..., errors="coerce")
Coerce(row) == [iso3 |-> row.iso3, indicator |-> row.indicator,
                date |-> to_numeric_date(row.date), value |-> row.value]

RECURSIVE DropNaDate(_)
DropNaDate(s) ==
    IF s = <<>> THEN <<>>
    ELSE IF Head(s).date = None THEN DropNaDate(Tail(s))
    ELSE <<Head(s)>> \o DropNaDate(Tail(s))

\* insert row r behind every row of the date-sorted sequence s whose date is <= r's
RECURSIVE InsertByDate(_, _)
InsertByDate(s, r) ==
    IF s = <<>> THEN <<r>>
    ELSE IF Get(Head(s).date) <= Get(r.date) THEN <<Head(s)>> \o InsertByDate(Tail(s), r)
    ELSE <<r>> \o s

RECURSIVE SortByDate(_)
SortByDate(s) ==
    IF s = <<>> THEN <<>>
    ELSE InsertByDate(SortByDate(SubSeq(s, 1, Len(s) - 1)), s[Len(s)])

Normalize(acc) == SortByDate(DropNaDate([k \in 1..Len(acc) |-> Coerce(acc[k])]))

finish_without_empty_guard(acc) ==
    IF acc = <<>> THEN [ok |-> FALSE, df |-> <<>>, exc |-> Some("KeyError")]
    ELSE [ok |-> TRUE, df |-> Normalize(acc), exc |-> None]

\* the code after the loop: the empty frame, or the normalised frame
Finish(acc) ==
    IF acc = <<>> THEN [ok |-> TRUE, df |-> <<>>, exc |-> None]
    ELSE [ok |-> TRUE, df |-> Normalize(acc), exc |-> None]

Raised(exc) == [ok |-> FALSE, df |-> <<>>, exc |-> exc]

\* ------------------------------------------------------------------ SpecFetch
\* One execution of wb_fetch_series(DEFAULT_COUNTRY, INDICATOR), one loop
\* iteration per step, against every server within the bounds.
FetchOutcomes ==
    { [k \in 1..MaxAttempts |-> "ok"],
      [k \in 1..MaxAttempts |-> IF k = 1 THEN "http" ELSE "ok"],
      [k \in 1..MaxAttempts |-> "timeout"] }

IdleFetch ==
    /\ fpc = "idle" /\ page = 0 /\ out = <<>> /\ reqs = <<>> /\ fres = None
IdlePure == input = None /\ result = None
IdleApp ==
    /\ now = 0 /\ ticks = 0 /\ seriesCache = {} /\ multiCache = {}
    /\ call = None

InitFetch ==
    /\ fpc = "loop" /\ page = 1 /\ out = <<>> /\ reqs = <<>> /\ fres = None
    /\ IdlePure /\ IdleApp

FetchPage ==
    /\ fpc = "loop"
    /\ \E outs \in FetchOutcomes, body \in Bodies(DEFAULT_COUNTRY) :
         \E it \in {LoopIter(page, out, outs, body)} :
             /\ reqs' = Append(reqs, it.req)
             /\ page' = it.page
             /\ out' = it.out
             /\ fpc' = IF it.next = "continue" THEN "loop"
                       ELSE IF it.next = "break" THEN "done" ELSE "raised"
             /\ fres' = IF it.next = "continue" THEN None
                        ELSE IF it.next = "break" THEN Some(Finish(it.out))
                        ELSE Some(Raised(it.exc))
    /\ UNCHANGED <<pureVars, appVars>>

NextFetch == FetchPage
SpecFetch == InitFetch /\ [][NextFetch]_vars

\* ------------------------------------------------------------------ SpecRetry
\* _safe_request(url, params) with the default retries, against every
\* sequence of attempt outcomes.
InitRetry ==
    /\ input \in { Some([fn |-> "_safe_request", outs |-> o]) : o \in AttemptOutcomes }
    /\ result = None
    /\ IdleFetch /\ IdleApp

CallSafeRequest ==
    /\ input # None /\ Get(input).fn = "_safe_request" /\ result = None
    /\ result' = Some(_safe_request(Get(input).outs, Retries))
    /\ UNCHANGED <<input, fetchVars, appVars>>

NextRetry == CallSafeRequest
SpecRetry == InitRetry /\ [][NextRetry]_vars
\* ==========================================================================
\* Metrics: yoy_change, cagr_from_last_n_years, extend_forecast.
\* A frame is a sequence of rows [iso3, indicator, date, value]; date is
\* numeric ({y}) after wb_fetch_series, value is {} (NaN) or {v}.
\* Values are integers.  yoy_change's quotient is kept as the fraction
\* num/den, and the CAGR, an irrational power, as the three numbers it is
\* computed from.
\* ==========================================================================
Row(c, y, v) == [iso3 |-> c, indicator |-> INDICATOR, date |-> Some(y), value |-> v]

RECURSIVE DropNaValue(_)
DropNaValue(s) ==
    IF s = <<>> THEN <<>>
    ELSE IF Head(s).value = None THEN DropNaValue(Tail(s))
    ELSE <<Head(s)>> \o DropNaValue(Tail(s))

clean_unsorted(df) == DropNaValue(df)

\* df.dropna(subset=["value"]).sort_values("date")
Clean(df) == SortByDate(DropNaValue(df))

\* prev in [0, None] or (isinstance(prev, float) and math.isclose(prev, 0.0)):
\* with the default rel_tol and abs_tol = 0 only 0 itself is close to 0
IsZero(v) == v = 0

latest_non_null(df) ==
    LET clean == Clean(df)
    IN  IF Len(clean) > 0 THEN Some(clean[Len(clean)]) ELSE None

yoy_change(df) ==
    LET clean == Clean(df)
    IN  IF Len(clean) < 2 THEN None
        ELSE LET last == Get(clean[Len(clean)].value)
                 prev == Get(clean[Len(clean) - 1].value)
             IN  IF IsZero(prev) THEN None
                 ELSE Some([num |-> (last - prev) * 100, den |-> prev])

RECURSIVE Between(_, _, _)
Between(s, lo, hi) ==
    IF s = <<>> THEN <<>>
    ELSE IF lo <= Get(Head(s).date) /\ Get(Head(s).date) <= hi
         THEN <<Head(s)>> \o Between(Tail(s), lo, hi)
         ELSE Between(Tail(s), lo, hi)

window_whole_series(clean, first_year, last_year) == clean

\* clean[clean["date"].between(first_year, last_year, inclusive="both")]
Window(clean, first_year, last_year) == Between(clean, first_year, last_year)

cagr_from_last_n_years(df, n) ==
    LET clean == Clean(df)
    IN  IF Len(clean) = 0 THEN None
        ELSE LET last_year == Get(clean[Len(clean)].date)
                 first_year == last_year - n
                 window == Window(clean, first_year, last_year)
             IN  IF Len(window) < 2 THEN None
                 ELSE LET start_val == Get(window[1].value)
                          end_val == Get(window[Len(window)].value)
                          years == Get(window[Len(window)].date) - Get(window[1].date)
                      IN  IF years <= 0 \/ IsZero(start_val) THEN None
                          ELSE Some([end_val |-> end_val, start_val |-> start_val,
                                     years |-> years])

compound_rate_only(v, rate) == v * rate

\* last_val = last_val * (1.0 + cagr)
Compound(v, rate) == v * (1 + rate)

RECURSIVE AddRows(_, _, _, _, _)
AddRows(i, years_ahead, last, last_val, rate) ==
    IF i > years_ahead THEN <<>>
    ELSE LET v == Compound(last_val, rate)
         IN  <<[iso3 |-> last.iso3, indicator |-> last.indicator,
                date |-> Some(Get(last.date) + i), value |-> Some(v)]>>
             \o AddRows(i + 1, years_ahead, last, v, rate)

extend_forecast(df, years_ahead, cagr) ==
    IF cagr = None \/ df = <<>> THEN df
    ELSE LET clean == Clean(df)
         IN  IF clean = <<>> THEN df
             ELSE clean \o AddRows(1, years_ahead, clean[Len(clean)],
                                   Get(clean[Len(clean)].value), Get(cagr))

\* ---------------------------------------------------------------- SpecMetrics
\* Each metric applied once to every frame within the bounds, rows in any
\* order, years possibly repeated, values possibly missing.
MaxSeriesLen == 3
MaxWindow == 2
MaxAhead == 2

Years == 2019..2022
Values == {None, Some(0), Some(110), Some(121)}
Rates == {None, Some(0), Some(1), Some(2)}
MetricRows == { Row(DEFAULT_COUNTRY, y, v) : y \in Years, v \in Values }
SpecExample ==
    << Row(DEFAULT_COUNTRY, 2019, Some(100)), Row(DEFAULT_COUNTRY, 2020, Some(110)),
       Row(DEFAULT_COUNTRY, 2021, None), Row(DEFAULT_COUNTRY, 2022, Some(121)) >>
Frames == SeqsUpTo(MetricRows, MaxSeriesLen) \cup {SpecExample}

InitMetrics ==
    /\ input \in { Some([fn |-> "metrics", df |-> f]) : f \in Frames }
    /\ result = None
    /\ IdleFetch /\ IdleApp

CallYoy ==
    /\ input # None /\ Get(input).fn = "metrics" /\ result = None
    /\ result' = Some([fn |-> "yoy_change", n |-> 0, k |-> 0, rate |-> None,
                       val |-> yoy_change(Get(input).df)])
    /\ UNCHANGED <<input, fetchVars, appVars>>

CallCagr ==
    /\ input # None /\ Get(input).fn = "metrics" /\ result = None
    /\ \E n \in 0..MaxWindow :
         result' = Some([fn |-> "cagr", n |-> n, k |-> 0, rate |-> None,
                         val |-> cagr_from_last_n_years(Get(input).df, n)])
    /\ UNCHANGED <<input, fetchVars, appVars>>

CallForecast ==
    /\ input # None /\ Get(input).fn = "metrics" /\ result = None
    /\ \E k \in 0..MaxAhead, rate \in Rates :
         result' = Some([fn |-> "extend_forecast", n |-> 0, k |-> k, rate |-> rate,
                         val |-> extend_forecast(Get(input).df, k, rate)])
    /\ UNCHANGED <<input, fetchVars, appVars>>

NextMetrics == CallYoy \/ CallCagr \/ CallForecast
SpecMetrics == InitMetrics /\ [][NextMetrics]_vars

\* ==========================================================================
\* The application: the two st.cache_data(ttl=60*60) layers, the World Bank
\* server as wb_fetch_series sees it, and the request handler at module
\* level (countries list, wb_fetch_multi, year filter, metrics).
\* ==========================================================================
MaxTicks == 2
MaxPeers == 3

TTL == 60 * 60
MIN_YEAR == 1960
CagrYears == 5

Countries == {"IND", "CHN", "BGD"}
TickSteps == {1, TTL - 1}
DefaultRange == <<2000, 2021>>
EmptyRange == <<MIN_YEAR, MIN_YEAR>>

\* A cache is a set of entries [key, t, val, oldest]: val was stored under
\* key at time t; oldest is the earliest time any of val's rows was read
\* from the network.
fresh_inclusive(e, t) == t - e.t <= TTL
\* ttl=60 * 60: an entry is served while less than TTL seconds old
Fresh(e, t) == t - e.t < TTL

CacheEntry(cache, key) == { e \in cache : e.key = key }
CacheGet(cache, key, t) == { e \in cache : e.key = key /\ Fresh(e, t) }
CachePut(cache, key, t, val, oldest) ==
    { e \in cache : e.key # key } \cup {[key |-> key, t |-> t, val |-> val, oldest |-> oldest]}

\* The server's answers for one country: page -> [outs, body].  dn is the
\* set of countries whose requests all time out during the call at hand.
AllOk == [k \in 1..MaxAttempts |-> "ok"]
AllTimeout == [k \in 1..MaxAttempts |-> "timeout"]
PageOf(outs, pages, rows) ==
    [outs |-> outs, body |-> [kind |-> "pair", pages |-> Some(pages), rows |-> Some(rows)]]
ServerData(c) ==
    IF c = "IND"
    THEN << PageOf(AllOk, 2, <<RawRow(c, "2020", Some(110))>>),
            PageOf(AllOk, 2, <<RawRow(c, "2021", Some(121))>>) >>
    ELSE IF c = "CHN"
    THEN << PageOf(AllOk, 1, <<RawRow(c, "2021", Some(7)), RawRow(c, "2020", Some(5))>>) >>
    ELSE << PageOf(AllOk, 1, <<RawRow(c, "2021", None)>>) >>
Server(c, dn) ==
    IF c \in dn THEN [pg \in 1..Len(ServerData(c)) |-> [ServerData(c)[pg] EXCEPT !.outs = AllTimeout]]
    ELSE ServerData(c)

\* the body of wb_fetch_series run to its end against one server
RECURSIVE FetchLoop(_, _, _)
FetchNext(it, server) ==
    IF it.next = "continue" THEN FetchLoop(it.page, it.out, server)
    ELSE IF it.next = "break" THEN Finish(it.out)
    ELSE Raised(it.exc)
FetchLoop(pg, acc, server) ==
    FetchNext(LoopIter(pg, acc, server[pg].outs, server[pg].body), server)

\* what the body returns for each country, its requests timing out or not
\* (the body reads nothing but the server's answers)
BodyResults ==
    [c \in Countries |->
        [timeout \in BOOLEAN |-> FetchLoop(1, <<>>, Server(c, IF timeout THEN {c} ELSE {}))]]

wb_fetch_series_body(c, dn) == BodyResults[c][(c \in dn)]

\* the cache miss: run the body and store a result (an exception is not stored)
SeriesMiss(c, key, sc, t, had, f) ==
    [ok |-> f.ok, df |-> f.df, exc |-> f.exc, oldest |-> t,
     sc |-> IF f.ok THEN CachePut(sc, key, t, f.df, t) ELSE sc,
     log |-> [c |-> c, had |-> had, net |-> TRUE, ok |-> f.ok, df |-> f.df]]

SeriesLookup(c, key, sc, t, dn, hit, had) ==
    IF hit # None
    THEN [ok |-> TRUE, df |-> Get(hit).val, exc |-> None, oldest |-> Get(hit).oldest, sc |-> sc,
          log |-> [c |-> c, had |-> had, net |-> FALSE, ok |-> TRUE, df |-> Get(hit).val]]
    ELSE SeriesMiss(c, key, sc, t, had, wb_fetch_series_body(c, dn))

\* @st.cache_data wb_fetch_series(country_code, indicator_code) called at
\* time t with series cache sc.  log is the record of this one call: had is
\* the entry the cache held for the key when the call came (if any), net
\* whether the body ran, i.e. whether the network was used.
wb_fetch_series(c, sc, t, dn) ==
    SeriesLookup(c, <<c, INDICATOR>>, sc, t, dn, CacheGet(sc, <<c, INDICATOR>>, t),
                 CacheEntry(sc, <<c, INDICATOR>>))

Min(a, b) == IF a <= b THEN a ELSE b

swallow_failure(st, f) == [st EXCEPT !.sc = f.sc, !.inner = Append(st.inner, f.log)]

\* an exception of wb_fetch_series leaves the list comprehension
Propagate(st, f) ==
    [st EXCEPT !.ok = FALSE, !.exc = f.exc, !.sc = f.sc, !.inner = Append(st.inner, f.log)]

\* frames = [wb_fetch_series(c, indicator_code) for c in countries]
RECURSIVE Frames_(_, _, _, _, _)
FrameStep(countries, i, st, t, dn, f) ==
    IF f.ok
    THEN Frames_(countries, i + 1,
                 [st EXCEPT !.sc = f.sc, !.table = st.table \o f.df,
                            !.oldest = Min(st.oldest, f.oldest),
                            !.inner = Append(st.inner, f.log)],
                 t, dn)
    ELSE Frames_(countries, i + 1, Propagate(st, f), t, dn)
Frames_(countries, i, st, t, dn) ==
    IF i > Len(countries) \/ ~st.ok THEN st
    ELSE FrameStep(countries, i, st, t, dn, wb_fetch_series(countries[i], st.sc, t, dn))

\* the body of wb_fetch_multi: pd.concat(frames, ignore_index=True)
wb_fetch_multi_body(countries, sc, t, dn) ==
    Frames_(countries, 1,
            [ok |-> TRUE, exc |-> None, sc |-> sc, table |-> <<>>, oldest |-> t, inner |-> <<>>],
            t, dn)

\* the cache miss: run the body and store a result (an exception is not stored)
MultiMiss(key, mc, t, b) ==
    [ok |-> b.ok, exc |-> b.exc, memo |-> FALSE,
     table |-> IF b.ok THEN b.table ELSE <<>>,
     oldest |-> b.oldest, inner |-> b.inner, sc |-> b.sc,
     mc |-> IF b.ok THEN CachePut(mc, key, t, b.table, b.oldest) ELSE mc]

MultiLookup(countries, key, sc, mc, t, dn, hit) ==
    IF hit # None
    THEN [ok |-> TRUE, exc |-> None, memo |-> TRUE, table |-> Get(hit).val,
          oldest |-> Get(hit).oldest, inner |-> <<>>, sc |-> sc, mc |-> mc]
    ELSE MultiMiss(key, mc, t, wb_fetch_multi_body(countries, sc, t, dn))

\* @st.cache_data wb_fetch_multi(countries, indicator_code)
wb_fetch_multi(countries, sc, mc, t, dn) ==
    MultiLookup(countries, <<countries, INDICATOR>>, sc, mc, t, dn,
                CacheGet(mc, <<countries, INDICATOR>>, t))

dedup_none(countries) == countries

RECURSIVE DedupLoop(_, _, _, _)
DedupLoop(countries, i, seen, dedup) ==
    IF i > Len(countries) THEN dedup
    ELSE IF countries[i] \notin seen
         THEN DedupLoop(countries, i + 1, seen \cup {countries[i]}, Append(dedup, countries[i]))
         ELSE DedupLoop(countries, i + 1, seen, dedup)

\* seen = set(); dedup = []; for c in countries: ...
Dedup(countries) == DedupLoop(countries, 1, {}, <<>>)

RECURSIVE Filter(_, _, _, _)
Filter(df, isoIn, lo, hi) ==
    IF df = <<>> THEN <<>>
    ELSE IF Head(df).iso3 \in isoIn /\ lo <= Get(Head(df).date) /\ Get(Head(df).date) <= hi
         THEN <<Head(df)>> \o Filter(Tail(df), isoIn, lo, hi)
         ELSE Filter(Tail(df), isoIn, lo, hi)

\* latest_non_null, yoy_change and cagr_from_last_n_years(n=5) of India's rows
Metrics(df_ind) ==
    [latest |-> latest_non_null(df_ind), yoy |-> yoy_change(df_ind),
     cagr5 |-> cagr_from_last_n_years(df_ind, CagrYears)]

\* the script after wb_fetch_multi returned or raised: st.error + st.stop,
\* the year filter, st.warning + st.stop on an empty frame, the metrics
AfterFetch(raw, countries, t, dn, m, df_all, df_ind) ==
    [sc |-> m.sc, mc |-> m.mc,
     call |-> [kind |-> "request", arg |-> raw, at |-> t, dn |-> dn,
               countries |-> countries, memo |-> m.memo, inner |-> m.inner, ok |-> m.ok,
               exc |-> m.exc, table |-> IF m.ok THEN Some(m.table) ELSE None,
               oldest |-> m.oldest,
               stage |-> IF ~m.ok THEN "error" ELSE IF df_all = <<>> THEN "no_data" ELSE "rendered",
               metrics |-> IF m.ok /\ df_all # <<>> THEN Some(Metrics(df_ind)) ELSE None]]

Filtered(raw, countries, yr, t, dn, m, df_all) ==
    AfterFetch(raw, countries, t, dn, m, df_all, Filter(df_all, {DEFAULT_COUNTRY}, yr[1], yr[2]))

Fetched(raw, countries, yr, t, dn, m) ==
    Filtered(raw, countries, yr, t, dn, m, Filter(m.table, Countries, yr[1], yr[2]))

Deduped(raw, countries, yr, sc, mc, t, dn) ==
    Fetched(raw, countries, yr, t, dn, wb_fetch_multi(countries, sc, mc, t, dn))

\* One script run for the controls (peers chosen by preset and multiselect,
\* year range): from the countries list to the metrics.
HandleRequest(peers, yr, sc, mc, t, dn) ==
    Deduped(<<DEFAULT_COUNTRY>> \o peers, Dedup(<<DEFAULT_COUNTRY>> \o peers), yr, sc, mc, t, dn)

\* -------------------------------------------------------------------- SpecApp
InitApp ==
    /\ now = 0 /\ ticks = 0 /\ seriesCache = {} /\ multiCache = {}
    /\ call = None
    /\ IdleFetch /\ IdlePure

TickBy(steps) ==
    /\ ticks < MaxTicks
    /\ \E d \in steps : now' = now + d
    /\ ticks' = ticks + 1
    /\ UNCHANGED <<seriesCache, multiCache, call, fetchVars, pureVars>>

\* the network during one call: fine, or one country's requests all time out
FailSets(cs) == {{}} \cup { {c} : c \in cs }

\* a call of the cached wb_fetch_series on its own, for a country of cs,
\* the requests for the country either fine or all timing out
GetOrFetchIn(cs) ==
    /\ \E c \in cs : \E dn \in {{}, {c}} :
         \E f \in {wb_fetch_series(c, seriesCache, now, dn)} :
             /\ seriesCache' = f.sc
             /\ call' = Some([kind |-> "get_or_fetch", arg |-> <<c>>, at |-> now, dn |-> dn,
                              countries |-> <<c>>, memo |-> FALSE, inner |-> <<f.log>>,
                              ok |-> f.ok, exc |-> f.exc,
                              table |-> IF f.ok THEN Some(f.df) ELSE None,
                              oldest |-> f.oldest, stage |-> "none", metrics |-> None])
    /\ UNCHANGED <<now, ticks, multiCache, fetchVars, pureVars>>

\* a script run with peers chosen among cs and a year range among yrs
RequestIn(cs, yrs) ==
    /\ \E peers \in SeqsUpTo(cs \ {DEFAULT_COUNTRY}, MaxPeers), yr \in yrs,
          dn \in FailSets(cs) :
         \E h \in {HandleRequest(peers, yr, seriesCache, multiCache, now, dn)} :
             /\ seriesCache' = h.sc
             /\ multiCache' = h.mc
             /\ call' = Some(h.call)
    /\ UNCHANGED <<now, ticks, fetchVars, pureVars>>

\* SpecApp: time passes; calls and script runs for India and one peer.
TimedCountries == {"IND", "CHN"}
Tick == TickBy(TickSteps)
GetOrFetch == GetOrFetchIn(TimedCountries)
Request == RequestIn(TimedCountries, {DefaultRange})
NextApp == Tick \/ GetOrFetch \/ Request
SpecApp == InitApp /\ [][NextApp]_vars

\* SpecRequest: calls and script runs for India and two peers, in any
\* number and order, all within the validity of the entries they create;
\* a run for India alone over a year range that holds no observation.
GetOrFetchAny == GetOrFetchIn(Countries)
RequestAny == RequestIn(Countries, {DefaultRange})
RequestNoData == RequestIn({DEFAULT_COUNTRY}, {EmptyRange})
NextRequest == GetOrFetchAny \/ RequestAny \/ RequestNoData
SpecRequest == InitApp /\ [][NextRequest]_vars

\* ==========================================================================
\* Claims about _safe_request and wb_fetch_series
\* ==========================================================================
FirstOk(outs, n) == CHOOSE k \in 1..n : outs[k] = "ok" /\ \A j \in 1..(k - 1) : outs[j] # "ok"

\* C1: one call through _safe_request with retries = 3: when the first three
\* attempts all fail the call raises the third attempt's exception after
\* exactly three attempts (never a fourth); when one of the first three
\* succeeds the call returns the response of the first successful attempt and
\* makes no attempt after it.
C1_RetryContract ==
    result # None =>
        LET outs == Get(input).outs
            r == Get(result)
        IN  /\ r.attempts <= Retries
            /\ (\A k \in 1..Retries : outs[k] # "ok") =>
                   /\ ~r.ok
                   /\ r.attempts = Retries
                   /\ r.exc = Some([attempt |-> Retries, kind |-> outs[Retries]])
                   /\ r.resp = None
            /\ (\E k \in 1..Retries : outs[k] = "ok") =>
                   /\ r.ok
                   /\ r.resp = Some(FirstOk(outs, Retries))
                   /\ r.attempts = FirstOk(outs, Retries)
                   /\ r.exc = None

\* three failures in a row although a fourth attempt would have succeeded
C1_Witness ==
    /\ result # None
    /\ ~Get(result).ok
    /\ Get(result).attempts = 3
    /\ Get(input).outs[4] = "ok"
    /\ Get(input).outs[2] # Get(input).outs[3]

\* reading of the pages of one fetch from its request log
BodyOf(k) == Get(reqs[k].body)
ReadShort(k) == reqs[k].ok /\ BodyOf(k).kind = "short"
ReadPair(k) == reqs[k].ok /\ BodyOf(k).kind = "pair" /\ BodyOf(k).rows # None
PageRows(k) == Get(BodyOf(k).rows)
Count(s, x) == Cardinality({ i \in DOMAIN s : s[i] = x })
CountInPages(x) ==
    Cardinality({ ki \in (DOMAIN reqs) \X (1..MaxRows + 1) :
                    /\ ki[2] \in DOMAIN PageRows(ki[1])
                    /\ Coerce(PageRows(ki[1])[ki[2]]) = x })
CoercedRows == { Coerce(r) : r \in RawRows(DEFAULT_COUNTRY) }

PagesInOrder ==
    /\ \A k \in DOMAIN reqs : reqs[k].page = k
    /\ fpc = "loop" => page = Len(reqs) + 1
    /\ \A k \in DOMAIN reqs : k < Len(reqs) => reqs[k].ok

StopRule ==
    \A k \in DOMAIN reqs :
        (ReadShort(k) \/ ReadPair(k)) =>
            /\ (k = Len(reqs) /\ fpc = "done")
                   <=> (ReadShort(k) \/ k >= MetaPages(BodyOf(k)))
            /\ (k < Len(reqs) \/ fpc = "loop")
                   <=> ~(ReadShort(k) \/ k >= MetaPages(BodyOf(k)))

\* the server answered every page with [meta, rows], meta.pages = P
ConstantPages(P) ==
    /\ fpc = "done"
    /\ \A k \in DOMAIN reqs : ReadPair(k) /\ BodyOf(k).pages = Some(P)

\* C2 as stated: pages 1, 2, 3, ... in order; the loop stops exactly when the
\* page read is >= its own metadata's page count or has fewer than 2
\* elements; and against a server reporting P pages, exactly P pages are
\* requested and every row of every page is in the result.
C2_AsStated ==
    /\ PagesInOrder
    /\ StopRule
    /\ \A P \in 0..(MaxPages + 1) :
           ConstantPages(P) =>
               /\ Len(reqs) = P
               /\ \A x \in CoercedRows : Count(Get(fres).df, x) = CountInPages(x)

\* C2 amended: the same order and stop rule; against a server reporting
\* P >= 1 pages exactly P pages are requested (a server reporting 0 pages is
\* still asked for page 1, and only page 1), and the result holds every row
\* of every page whose date is numeric, as often as the pages hold it (rows
\* whose date is not numeric are dropped).
C2_Pagination ==
    /\ PagesInOrder
    /\ StopRule
    /\ \A P \in 0..(MaxPages + 1) :
           ConstantPages(P) =>
               /\ P >= 1 => Len(reqs) = P
               /\ P = 0 => Len(reqs) = 1
               /\ Get(fres).ok
               /\ \A x \in CoercedRows :
                      Count(Get(fres).df, x) = IF x.date = None THEN 0 ELSE CountInPages(x)

\* a server reporting MaxPages pages, all of them read, the last bringing a row
C2_Witness ==
    /\ ConstantPages(MaxPages)
    /\ Len(reqs) = MaxPages
    /\ reqs[1].attempts = 2
    /\ PageRows(MaxPages) # <<>>
    /\ Len(Get(fres).df) = MaxPages

C7_UniqueObservations ==
    (fres # None /\ Get(fres).ok) =>
        \A i, j \in DOMAIN Get(fres).df :
            (/\ Get(fres).df[i].iso3 = Get(fres).df[j].iso3
             /\ Get(fres).df[i].indicator = Get(fres).df[j].indicator
             /\ Get(fres).df[i].date = Get(fres).df[j].date) => i = j
\* ==========================================================================
\* Claims about the metrics
\* ==========================================================================
ArgDf == Get(input).df
Called(fn) == input # None /\ result # None /\ Get(result).fn = fn
YearAt(df, i) == Get(df[i].date)
ValueAt(df, i) == Get(df[i].value)
ValidIdx(df) == { i \in DOMAIN df : df[i].value # None }
LastValidYear(df) ==
    CHOOSE y \in { YearAt(df, i) : i \in ValidIdx(df) } :
        \A i \in ValidIdx(df) : YearAt(df, i) <= y

\* C8: yoy_change of a frame, rows in any order: none when fewer than 2 rows
\* have a value or when the second most recent valued row's value is 0;
\* otherwise (last - prev) / prev * 100 over the two highest-year rows that
\* have a value, rows without a value being skipped.
C8_YoyChange ==
    Called("yoy_change") =>
        LET df == ArgDf
            r == Get(result).val
        IN  IF Cardinality(ValidIdx(df)) < 2 THEN r = None
            ELSE \E i, j \in ValidIdx(df) :
                    /\ i # j
                    /\ YearAt(df, i) <= YearAt(df, j)
                    /\ \A m \in ValidIdx(df) \ {i, j} : YearAt(df, m) <= YearAt(df, i)
                    /\ IF ValueAt(df, i) = 0 THEN r = None
                       ELSE /\ r # None
                            /\ Get(r).den # 0
                            /\ Get(r).num * ValueAt(df, i)
                                 = (ValueAt(df, j) - ValueAt(df, i)) * 100 * Get(r).den

\* the specification's scenario: (121 - 110) / 110 * 100 = 10
C8_Witness ==
    /\ Called("yoy_change")
    /\ ArgDf = SpecExample
    /\ Get(result).val # None
    /\ Get(Get(result).val).num = 10 * Get(Get(result).val).den

\* a frame given out of year order, with a missing value between the two used
C8_WitnessUnordered ==
    /\ Called("yoy_change")
    /\ ArgDf = << Row(DEFAULT_COUNTRY, 2022, Some(121)), Row(DEFAULT_COUNTRY, 2021, None),
                  Row(DEFAULT_COUNTRY, 2020, Some(110)) >>
    /\ Get(result).val = Some([num |-> 1100, den |-> 110])

WindowIdx(df, n) ==
    { i \in ValidIdx(df) : LastValidYear(df) - n <= YearAt(df, i) }

\* C9: cagr(frame, n): none exactly when no row has a value, the window
\* [last_year - n, last_year] holds fewer than 2 valued rows, the span from
\* the window's lowest-year row to last_year is <= 0, or the start value is
\* 0; otherwise the result is computed from the value of the lowest-year
\* valued row of the window, the value at last_year and that span alone.
C9_Cagr ==
    Called("cagr") =>
        LET df == ArgDf
            n == Get(result).n
            r == Get(result).val
        IN  IF ValidIdx(df) = {} THEN r = None
            ELSE IF Cardinality(WindowIdx(df, n)) < 2 THEN r = None
            ELSE \E s, e \in WindowIdx(df, n) :
                    /\ s # e
                    /\ YearAt(df, e) = LastValidYear(df)
                    /\ \A m \in WindowIdx(df, n) : YearAt(df, s) <= YearAt(df, m)
                    /\ IF YearAt(df, e) - YearAt(df, s) <= 0 \/ ValueAt(df, s) = 0
                       THEN r = None
                       ELSE r = Some([end_val |-> ValueAt(df, e),
                                      start_val |-> ValueAt(df, s),
                                      years |-> YearAt(df, e) - YearAt(df, s)])

\* a valued row older than the window, and a sparse window: the start is
\* 2020, not the older 2019 row and not the missing calendar bound
C9_Witness ==
    /\ Called("cagr")
    /\ Get(result).n = 2
    /\ ArgDf = << Row(DEFAULT_COUNTRY, 2019, Some(121)), Row(DEFAULT_COUNTRY, 2020, Some(110)),
                  Row(DEFAULT_COUNTRY, 2022, Some(121)) >>
    /\ Get(result).val = Some([end_val |-> 121, start_val |-> 110, years |-> 2])

SortedByDate(df) == \A i, j \in DOMAIN df : i < j => YearAt(df, i) <= YearAt(df, j)

\* the arguments C10 is about: a non-empty series (rows in ascending year
\* order) with at least one value, and a rate
ForecastCase ==
    /\ Called("extend_forecast")
    /\ ArgDf # <<>>
    /\ SortedByDate(ArgDf)
    /\ ValidIdx(ArgDf) # {}
    /\ Get(result).rate # None

\* the k rows from position base + 1 on: years first_year, first_year + 1, ...,
\* each value (1 + rate) times the one before, the first (1 + rate) times
\* the value of a valued row of the last valid year
Appended(df, r, base, k, rate, first_year) ==
    /\ Len(r) = base + k
    /\ \A i \in 1..k :
          /\ r[base + i].date = Some(first_year + i - 1)
          /\ r[base + i].value # None
          /\ r[base + i].iso3 = df[1].iso3
    /\ \A i \in 2..k : Get(r[base + i].value) = (1 + rate) * Get(r[base + i - 1].value)
    /\ k >= 1 =>
          \E m \in ValidIdx(df) :
              /\ YearAt(df, m) = LastValidYear(df)
              /\ Get(r[base + 1].value) = (1 + rate) * ValueAt(df, m)

\* C10 as stated: the output is the whole input, rows without a value
\* included, followed by k points at the years after the last input year.
C10_AsStated ==
    ForecastCase =>
        LET df == ArgDf
            r == Get(result).val
        IN  /\ Len(r) >= Len(df)
            /\ SubSeq(r, 1, Len(df)) = df
            /\ Appended(df, r, Len(df), Get(result).k, Get(Get(result).rate),
                        YearAt(df, Len(df)) + 1)

\* C10 amended: the output is the input's rows that have a value, in
\* ascending year order (rows without a value are dropped), followed by
\* exactly k points at the years after the last valued row's year, each
\* value (1 + rate) times the one before, the first (1 + rate) times the
\* last valid value.
C10_Forecast ==
    ForecastCase =>
        LET df == ArgDf
            r == Get(result).val
            nv == Cardinality(ValidIdx(df))
        IN  /\ Len(r) >= nv
            /\ SortedByDate(SubSeq(r, 1, nv))
            /\ \A x \in MetricRows \cup { df[i] : i \in DOMAIN df } :
                   Count(SubSeq(r, 1, nv), x) = IF x.value = None THEN 0 ELSE Count(df, x)
            /\ Appended(df, r, nv, Get(result).k, Get(Get(result).rate),
                        LastValidYear(df) + 1)

\* two points appended behind a series whose last row has no value
C10_Witness ==
    /\ ForecastCase
    /\ ArgDf = << Row(DEFAULT_COUNTRY, 2020, Some(110)), Row(DEFAULT_COUNTRY, 2021, None) >>
    /\ Get(result).k = 2
    /\ Get(result).rate = Some(1)
    /\ Get(result).val = << Row(DEFAULT_COUNTRY, 2020, Some(110)),
                            Row(DEFAULT_COUNTRY, 2021, Some(220)),
                            Row(DEFAULT_COUNTRY, 2022, Some(440)) >>
\* ==========================================================================
\* Claims about the caches and the request
\* ==========================================================================
IsCall(kind) == call # None /\ Get(call).kind = kind
TheCall == Get(call)
InnerCountries == [k \in DOMAIN TheCall.inner |-> TheCall.inner[k].c]

\* C4: a call of the cached wb_fetch_series for a key whose entry was
\* inserted at time t returns the entry's frame without using the network at
\* every time in [t, t + 3600), and fetches anew at every time >= t + 3600
\* (as it does when the key has no entry); a successful fetch inserts the
\* entry at the time of the call.
C4_SeriesCache ==
    call # None =>
        \A k \in DOMAIN TheCall.inner :
            LET q == TheCall.inner[k]
            IN  /\ \A e \in q.had :
                      /\ e.t <= TheCall.at
                      /\ TheCall.at < e.t + 3600 => (~q.net /\ q.ok /\ q.df = e.val)
                      /\ TheCall.at >= e.t + 3600 => q.net
                /\ q.had = None => q.net
                /\ (q.net /\ q.ok) =>
                      \E e \in seriesCache :
                          e.key = <<q.c, INDICATOR>> /\ e.t = TheCall.at /\ e.val = q.df

\* one second before the hour: the entry inserted at 0 is served
C4_Witness ==
    /\ call # None
    /\ TheCall.at = 3599
    /\ \E k \in DOMAIN TheCall.inner :
          /\ ~TheCall.inner[k].net
          /\ \E e \in TheCall.inner[k].had : e.t = 0

\* on the hour: the entry inserted at 0 is not served, the network is used
C4_WitnessExpired ==
    /\ call # None
    /\ TheCall.at = 3600
    /\ \E k \in DOMAIN TheCall.inner :
          /\ TheCall.inner[k].net
          /\ \E e \in TheCall.inner[k].had : e.t = 0

\* d lists the distinct codes of raw, each once, in the order of their first
\* occurrence in raw
FirstIndex(raw, c) == CHOOSE i \in DOMAIN raw : raw[i] = c /\ \A j \in 1..(i - 1) : raw[j] # c
IsFirstOccurrences(d, raw) ==
    /\ { d[i] : i \in DOMAIN d } = { raw[i] : i \in DOMAIN raw }
    /\ \A i, j \in DOMAIN d : i < j => FirstIndex(raw, d[i]) < FirstIndex(raw, d[j])

\* what the server holds for a country, as wb_fetch_series returns it
ExpectedFrame(c) ==
    IF c = "IND" THEN << Row(c, 2020, Some(110)), Row(c, 2021, Some(121)) >>
    ELSE IF c = "CHN" THEN << Row(c, 2020, Some(5)), Row(c, 2021, Some(7)) >>
    ELSE << Row(c, 2021, None) >>
RECURSIVE Blocks(_)
Blocks(d) == IF d = <<>> THEN <<>> ELSE ExpectedFrame(Head(d)) \o Blocks(Tail(d))
CodeLists == SeqsUpTo(Countries, Cardinality(Countries))

C6_NoPartialSuccess ==
    IsCall("request") =>
        \A k \in DOMAIN TheCall.inner :
            ~TheCall.inner[k].ok =>
                /\ ~TheCall.ok
                /\ TheCall.stage = "error"
                /\ TheCall.table = None
                /\ TheCall.metrics = None
                /\ k = Len(TheCall.inner)
                /\ TheCall.exc = Some([attempt |-> 3, kind |-> "timeout"])
                /\ \A e \in multiCache :
                       e.key = <<TheCall.countries, INDICATOR>> => e.t + 3600 <= TheCall.at

\* India fetched, then China fails; Bangladesh is never asked for
C6_Witness ==
    /\ IsCall("request")
    /\ TheCall.arg = <<"IND", "CHN", "BGD">>
    /\ Len(TheCall.inner) = 2
    /\ TheCall.inner[1].ok /\ TheCall.inner[1].net
    /\ ~TheCall.inner[2].ok
    /\ ~TheCall.ok
    /\ \E e \in seriesCache : e.key = <<"IND", INDICATOR>>

\* ==========================================================================
\* Claim about the two cache layers together
\* ==========================================================================
\* seconds between the network read of the oldest row of the table a call
\* returned and the moment of the call
Age == TheCall.at - TheCall.oldest

\* C11: every row of a table that wb_fetch_multi returns to the script was
\* read from the network at most 3600 seconds before the call that returns
\* it, wb_fetch_multi's own cache and wb_fetch_series's cache both counted.
C11_Freshness ==
    (IsCall("request") /\ TheCall.ok) => Age <= 3600

\* what the two caches give together: each layer serves an entry younger
\* than 3600 s, so a row is less than two hours old when it is returned
C11_TwoWindows ==
    (IsCall("request") /\ TheCall.ok) => Age < 2 * TTL

\* wb_fetch_multi serves from its cache a table it built, 3599 s earlier,
\* from a wb_fetch_series entry that was then 3599 s old
C11_Stale ==
    /\ IsCall("request")
    /\ TheCall.ok /\ TheCall.memo
    /\ TheCall.at = 2 * (TTL - 1)
    /\ TheCall.oldest = 0
====
